---- MODULE Spec2Model ----
(***************************************************************************)
(* A model of homework.py: the start-up checks of main() and its poll      *)
(* loop (fetch, cursor, validation, formatting, notification, error        *)
(* handlers, sleep).  The Cyrillic string literals of the source are       *)
(* written here as ASCII renderings of the same literals; every literal    *)
(* keeps its own distinct text, so string equality is preserved.           *)
(***************************************************************************)
EXTENDS Integers, Sequences, FiniteSets, TLC

VARIABLES
    pc,            \* position of main(): start, mkbot, fetch, body, handler, sleep, stopped
    tokens,        \* PRACTICUM_TOKEN, TELEGRAM_TOKEN, TELEGRAM_CHAT_ID (lines 14-16)
    timestamp,     \* the cursor, main() line 118
    prev_message,  \* main() line 119
    cyc,           \* what the current iteration of the loop has done so far
    notified,      \* the last two calls of check_message, oldest first
    prevFetchErr,  \* diagnostic of the previous iteration's fetch failure, "" if none
    pending,       \* exception propagating out of the try statement (through finally)
    nFetch,        \* number of requests issued
    nSleep,        \* number of time.sleep calls
    exitCode,      \* process exit status once stopped, -1 while running
    lastDelivered, \* text of the last message bot.send_message accepted, "" if none
    fn             \* one application of check_response or parse_status to an input

vars == <<pc, tokens, timestamp, prev_message, cyc, notified, prevFetchErr,
          pending, nFetch, nSleep, exitCode, lastDelivered, fn>>

----------------------------------------------------------------------------
(* Bounds and program constants *)

MaxCycles == 3

RETRY_PERIOD == 600

----------------------------------------------------------------------------
(* Python values *)

\* A JSON value: an integer, a string, null or a list of homework records.
JInt(n)  == [t |-> "int",  i |-> n, s |-> "",  l |-> <<>>]
JStr(x)  == [t |-> "str",  i |-> 0, s |-> x,   l |-> <<>>]
JNull    == [t |-> "null", i |-> 0, s |-> "",  l |-> <<>>]
JList(q) == [t |-> "list", i |-> 0, s |-> "",  l |-> q]

\* An exception: its class and its str().  KeyError's str() is the repr of
\* its argument, i.e. the argument in quotes.
NoExc == [kind |-> "", text |-> ""]
Exc(kind, arg) ==
    [kind |-> kind,
     text |-> IF kind = "KeyError" THEN "\"" \o arg \o "\"" ELSE arg]

\* An environment variable: unset (os.getenv gives None) or a string.
Unset  == [present |-> FALSE, v |-> ""]
Env(x) == [present |-> TRUE,  v |-> x]

\* Python truthiness of an optional string: None and "" are false.
Truthy(o) == o.present /\ o.v # ""

\* dict.get(key) on a dict of strings: None when the key is absent.
DictGet(d, k) == IF k \in DOMAIN d THEN Env(d[k]) ELSE Unset

----------------------------------------------------------------------------
(* Inputs *)

EnvValues == {Unset, Env(""), Env("secret")}

Clock == {1000}

\* One homework record: a dict with any of the keys homework_name, status.
Rec(name, status) ==
    [k \in {"homework_name", "status"} |->
        IF k = "homework_name" THEN name ELSE status]
OnlyName(name)     == [k \in {"homework_name"} |-> name]
OnlyStatus(status) == [k \in {"status"} |-> status]

Records ==
    { Rec("proj1", "approved"), Rec("proj2", "rejected"),
      Rec("proj1", "reviewing"), Rec("proj1", "in_review"),
      Rec("", "approved"), Rec("proj1", ""),
      OnlyName("proj1"), OnlyStatus("approved") }

HomeworkLists ==
    {<<>>} \cup { <<r>> : r \in Records }
    \cup { <<Rec("proj1", "approved"), Rec("proj2", "rejected")>>,
           <<Rec("proj2", "rejected"), Rec("proj1", "approved")>>,
           <<Rec("proj1", "approved"), Rec("proj1", "in_review")>> }

FewLists == { <<>>, <<Rec("proj1", "approved")>> }

CurrentDateValues == { JInt(2000), JInt(3000), JNull, JStr("soon") }

\* A parsed JSON body: a dict with any of the keys homeworks, current_date,
\* or a value that is not a dict.
Dict(keys, hw, cd) ==
    [isDict |-> TRUE,
     d |-> [k \in keys |-> IF k = "homeworks" THEN hw ELSE cd]]
NotADict == [isDict |-> FALSE, d |-> <<>>]

Responses ==
    { Dict({"homeworks", "current_date"}, JList(q), JInt(2000)) :
          q \in HomeworkLists }
    \cup { Dict({"homeworks", "current_date"}, JList(q), cd) :
              q \in FewLists, cd \in CurrentDateValues }
    \cup { Dict({"homeworks", "current_date"}, JStr("oops"), JInt(2000)) }
    \cup { Dict({"homeworks"}, JList(q), JNull) : q \in FewLists }
    \cup { Dict({"current_date"}, JNull, cd) : cd \in {JInt(2000), JNull} }
    \cup { Dict({}, JNull, JNull), NotADict }

\* What requests.get and .json() can do: the network call fails, the server
\* answers with a status, the body parses or does not.
HttpFail(err)     == [net |-> "fail", err |-> err, status |-> 0,
                      json |-> FALSE, body |-> NotADict]
HttpStatus(code)  == [net |-> "ok", err |-> "", status |-> code,
                      json |-> FALSE, body |-> NotADict]
HttpBadJson       == [net |-> "ok", err |-> "", status |-> 200,
                      json |-> FALSE, body |-> NotADict]
HttpJson(r)       == [net |-> "ok", err |-> "", status |-> 200,
                      json |-> TRUE, body |-> r]

HttpOutcomes ==
    { HttpFail("timed out"), HttpStatus(500), HttpBadJson }
    \cup { HttpJson(r) : r \in Responses }

\* What bot.send_message can do.  On failure send_message executes
\* `raise telegram.error.TelegramError` with no argument: this raises a
\* TelegramError if the library's class can be built without arguments and
\* a TypeError from the constructor if it cannot.
SendOutcomes == {"ok", "TelegramError", "TypeError"}

----------------------------------------------------------------------------
(* The functions of homework.py *)

HOMEWORK_VERDICTS ==
    [s \in {"approved", "reviewing", "rejected"} |->
        CASE s = "approved"  -> "Work checked: the reviewer liked everything. Hurray!"
          [] s = "reviewing" -> "Work taken for review by the reviewer."
          [] s = "rejected"  -> "Work checked: the reviewer has remarks."]

any_token(t) == \E i \in 1..3 : Truthy(t[i])
check_tokens(t) == \A i \in 1..3 : Truthy(t[i])

\* The outcome of a call: the exception it raised (NoExc if none) and the
\* value it returned.
Raised(e)   == [exc |-> e, val |-> ""]
Returned(v) == [exc |-> NoExc, val |-> v]

\* get_api_answer with a slip: a failed request is repeated once at once.
get_api_answer_retry(ts, http) ==
    LET payload == [from_date |-> ts]
    IN  IF http.net = "fail"
        THEN [req |-> payload, calls |-> 2, val |-> NotADict,
              exc |-> Exc("ConnectionError", "API request error: " \o http.err)]
        ELSE IF http.status # 200
        THEN [req |-> payload, calls |-> 2, val |-> NotADict,
              exc |-> Exc("ConnectionError",
                          "Server answer: " \o ToString(http.status))]
        ELSE IF ~http.json
        THEN [req |-> payload, calls |-> 2, val |-> NotADict,
              exc |-> Exc("JSONDecodeError", "Expecting value")]
        ELSE [req |-> payload, calls |-> 1, val |-> http.body, exc |-> NoExc]

\* get_api_answer(timestamp) under the outcome `http` of the request: the
\* query parameters it sent, the number of requests.get calls it made, the
\* exception it raised, the value it returned.
get_api_answer(ts, http) ==
    LET payload == [from_date |-> ts]
    IN  IF http.net = "fail"
        THEN [req |-> payload, calls |-> 1, val |-> NotADict,
              exc |-> Exc("ConnectionError", "API request error: " \o http.err)]
        ELSE IF http.status # 200
        THEN [req |-> payload, calls |-> 1, val |-> NotADict,
              exc |-> Exc("ConnectionError",
                          "Server answer: " \o ToString(http.status))]
        ELSE IF ~http.json
        THEN [req |-> payload, calls |-> 1, val |-> NotADict,
              exc |-> Exc("JSONDecodeError", "Expecting value")]
        ELSE [req |-> payload, calls |-> 1, val |-> http.body, exc |-> NoExc]

\* check_response with a slip: the type of the homeworks value is not checked.
check_response_any_homeworks(response) ==
    IF ~response.isDict
    THEN [exc |-> Exc("TypeError", "Data is not a dict"), val |-> <<>>]
    ELSE IF "homeworks" \notin DOMAIN response.d
    THEN [exc |-> Exc("KeyError", "No key 'homeworks'"), val |-> <<>>]
    ELSE IF "current_date" \notin DOMAIN response.d
    THEN [exc |-> Exc("KeyError", "No key 'current_date'"), val |-> <<>>]
    ELSE [exc |-> NoExc, val |-> response.d["homeworks"].l]

check_response(response) ==
    IF ~response.isDict
    THEN [exc |-> Exc("TypeError", "Data is not a dict"), val |-> <<>>]
    ELSE IF "homeworks" \notin DOMAIN response.d
    THEN [exc |-> Exc("KeyError", "No key 'homeworks'"), val |-> <<>>]
    ELSE IF "current_date" \notin DOMAIN response.d
    THEN [exc |-> Exc("KeyError", "No key 'current_date'"), val |-> <<>>]
    ELSE IF response.d["homeworks"].t # "list"
    THEN [exc |-> Exc("TypeError", "Data is not a list"), val |-> <<>>]
    ELSE [exc |-> NoExc, val |-> response.d["homeworks"].l]

\* parse_status with a slip: homework_name is tested for None only, so an
\* empty name passes.
parse_status_empty_name(homework) ==
    LET homework_name == DictGet(homework, "homework_name")
        status        == DictGet(homework, "status")
    IN  IF ~homework_name.present
        THEN Raised(Exc("KeyError", "No key 'homework_name'"))
        ELSE IF ~Truthy(status)
        THEN Raised(Exc("KeyError", "No key 'status'"))
        ELSE IF status.v \notin DOMAIN HOMEWORK_VERDICTS
        THEN Raised(Exc("KeyError", "API returns an undocumented status"))
        ELSE Returned("Review status changed for \"" \o homework_name.v
                      \o "\". " \o HOMEWORK_VERDICTS[status.v])

parse_status(homework) ==
    LET homework_name == DictGet(homework, "homework_name")
        status        == DictGet(homework, "status")
    IN  IF ~Truthy(homework_name)
        THEN Raised(Exc("KeyError", "No key 'homework_name'"))
        ELSE IF ~Truthy(status)
        THEN Raised(Exc("KeyError", "No key 'status'"))
        ELSE IF status.v \notin DOMAIN HOMEWORK_VERDICTS
        THEN Raised(Exc("KeyError", "API returns an undocumented status"))
        ELSE Returned("Review status changed for \"" \o homework_name.v
                      \o "\". " \o HOMEWORK_VERDICTS[status.v])

\* send_message(bot, message) under the outcome `out` of bot.send_message.
send_message(message, out) ==
    IF out = "ok" THEN NoExc
    ELSE IF out = "TelegramError" THEN Exc("TelegramError", "")
    ELSE Exc("TypeError", "__init__() missing 1 required positional argument")

\* Variants of check_message with a slip: one that never compares, one that
\* returns prev_message.
check_message_no_dedup(message, prev, out) ==
    [msg |-> message, prev |-> prev, sent |-> TRUE,
     exc |-> send_message(message, out), ret |-> message]
check_message_returns_prev(message, prev, out) ==
    IF message # prev
    THEN [msg |-> message, prev |-> prev, sent |-> TRUE,
          exc |-> send_message(message, out), ret |-> prev]
    ELSE [msg |-> message, prev |-> prev, sent |-> FALSE,
          exc |-> NoExc, ret |-> prev]

\* check_message(bot, message, prev_message) under the outcome `out` of the
\* send it may make: whether it called send_message, what it raised, what
\* it returned.
check_message(message, prev, out) ==
    IF message # prev
    THEN [msg |-> message, prev |-> prev, sent |-> TRUE,
          exc |-> send_message(message, out), ret |-> message]
    ELSE [msg |-> message, prev |-> prev, sent |-> FALSE,
          exc |-> NoExc, ret |-> message]

\* The diagnostic the except clause matching the exception builds.
Diagnostic(e) ==
    IF e.kind = "ConnectionError" THEN "Connection error: " \o e.text
    ELSE IF e.kind = "TypeError" THEN "Object of wrong type: " \o e.text
    ELSE "Program failure: " \o e.text

----------------------------------------------------------------------------
(* main() *)

\* The record of an iteration of the loop.
IdleCycle ==
    [active |-> FALSE, from_date |-> JNull, startTs |-> JNull, startPrev |-> "",
     fetch |-> [req |-> [from_date |-> JNull], calls |-> 0, val |-> NotADict,
                exc |-> NoExc],
     exc |-> NoExc, stage |-> "", hwMsg |-> "", calls |-> <<>>, sleeps |-> <<>>]

Push(w, c) == IF Len(w) < 2 THEN Append(w, c) ELSE <<w[2], c>>

\* The last delivered text after the call c of check_message: its message
\* if bot.send_message was called and raised nothing.
Delivered(last, c) == IF c.sent /\ c.exc = NoExc THEN c.msg ELSE last

\* No function application (the state of fn in runs of main()).
NoCall == [op |-> "", response |-> NotADict, homework |-> <<>>,
           exc |-> NoExc, list |-> <<>>, text |-> ""]

Init ==
    /\ pc = "start"
    /\ tokens \in [1..3 -> EnvValues]
    /\ timestamp = JNull
    /\ prev_message = ""
    /\ cyc = IdleCycle
    /\ notified = <<>>
    /\ prevFetchErr = ""
    /\ pending = NoExc
    /\ nFetch = 0
    /\ nSleep = 0
    /\ exitCode = -1
    /\ lastDelivered = ""
    /\ fn = NoCall

\* Lines 108-110: sys.exit() without an argument ends the process with
\* exit status 0.
CheckTokens ==
    /\ pc = "start"
    /\ IF ~check_tokens(tokens)
       THEN pc' = "stopped" /\ exitCode' = 0
       ELSE pc' = "mkbot" /\ exitCode' = exitCode
    /\ UNCHANGED <<tokens, timestamp, prev_message, cyc, notified,
                   prevFetchErr, pending, nFetch, nSleep, lastDelivered, fn>>

\* Lines 112-119: telegram.Bot(...) is built or raises; then the cursor is
\* set from the clock and prev_message to "".
MakeBot ==
    /\ pc = "mkbot"
    /\ \E built \in BOOLEAN, now \in Clock :
          IF ~built
          THEN /\ pc' = "stopped" /\ exitCode' = 0
               /\ UNCHANGED <<timestamp, prev_message>>
          ELSE /\ pc' = "fetch" /\ exitCode' = exitCode
               /\ timestamp' = JInt(now)
               /\ prev_message' = ""
    /\ UNCHANGED <<tokens, cyc, notified, prevFetchErr, pending, nFetch, nSleep,
                   lastDelivered, fn>>

\* Line 123: the request of one iteration.
Fetch ==
    /\ pc = "fetch"
    /\ nFetch < MaxCycles
    /\ \E http \in HttpOutcomes :
          LET r == get_api_answer(timestamp, http)
          IN  /\ cyc' = [IdleCycle EXCEPT
                            !.active = TRUE,
                            !.from_date = r.req.from_date,
                            !.startTs = timestamp,
                            !.startPrev = prev_message,
                            !.fetch = r,
                            !.exc = r.exc,
                            !.stage = IF r.exc # NoExc THEN "fetch" ELSE ""]
              /\ pc' = IF r.exc # NoExc THEN "handler" ELSE "body"
    /\ prevFetchErr' = IF cyc.active /\ cyc.fetch.exc # NoExc
                       THEN Diagnostic(cyc.fetch.exc) ELSE ""
    /\ nFetch' = nFetch + cyc'.fetch.calls
    /\ UNCHANGED <<tokens, timestamp, prev_message, notified, pending,
                   nSleep, exitCode, lastDelivered, fn>>

\* Line 124: response.get("current_date", timestamp) on a dict.
KeepCursor(response, ts) == ts
AdvanceCursor(response, ts) ==
    IF "current_date" \in DOMAIN response.d
    THEN response.d["current_date"] ELSE ts

\* Line 127: homework[0].
LastRecord(homework) == homework[Len(homework)]
FirstRecord(homework) == homework[1]

\* Lines 124-130 on the response `response`, with cursor ts, last message
\* prev and outcome `out` of the send it may make: the new cursor and last
\* message, the exception raised and where, the formatted message and the
\* calls of check_message.
TryBody(response, ts, prev, out) ==
    LET base == [timestamp |-> ts, prev_message |-> prev, exc |-> NoExc,
                 stage |-> "", hwMsg |-> "", calls |-> <<>>]
    IN  IF ~response.isDict
        THEN [base EXCEPT
                !.exc = Exc("AttributeError", "object has no attribute 'get'"),
                !.stage = "cursor"]
        ELSE
        LET ts2  == AdvanceCursor(response, ts)
            cr   == check_response(response)
            adv  == [base EXCEPT !.timestamp = ts2]
        IN  IF cr.exc # NoExc
            THEN [adv EXCEPT !.exc = cr.exc, !.stage = "validate"]
            ELSE IF cr.val = <<>>
            THEN adv
            ELSE
            LET ps == parse_status(FirstRecord(cr.val))
            IN  IF ps.exc # NoExc
                THEN [adv EXCEPT !.exc = ps.exc, !.stage = "format"]
                ELSE
                LET c == check_message(ps.val, prev, out)
                IN  IF c.exc # NoExc
                    THEN [adv EXCEPT !.exc = c.exc, !.stage = "notify",
                                     !.hwMsg = ps.val, !.calls = <<c>>]
                    ELSE [adv EXCEPT !.prev_message = c.ret,
                                     !.hwMsg = ps.val, !.calls = <<c>>]

Body ==
    /\ pc = "body"
    /\ \E out \in SendOutcomes :
          LET b == TryBody(cyc.fetch.val, timestamp, prev_message, out)
          IN  /\ timestamp' = b.timestamp
              /\ prev_message' = b.prev_message
              /\ cyc' = [cyc EXCEPT !.exc = b.exc, !.stage = b.stage,
                                    !.hwMsg = b.hwMsg, !.calls = b.calls]
              /\ notified' = IF b.calls = <<>> THEN notified
                             ELSE Push(notified, b.calls[1])
              /\ lastDelivered' = IF b.calls = <<>> THEN lastDelivered
                                  ELSE Delivered(lastDelivered, b.calls[1])
              /\ pc' = IF b.exc # NoExc THEN "handler" ELSE "sleep"
    /\ UNCHANGED <<tokens, prevFetchErr, pending, nFetch, nSleep, exitCode, fn>>

\* Handler with a slip: the result of check_message is not kept, so the
\* diagnostics have no effect on prev_message.
HandlerDropsResult ==
    /\ pc = "handler"
    /\ \E out \in SendOutcomes :
          LET c == check_message(Diagnostic(cyc.exc), prev_message, out)
          IN  /\ cyc' = [cyc EXCEPT !.calls = Append(@, c)]
              /\ notified' = Push(notified, c)
              /\ lastDelivered' = Delivered(lastDelivered, c)
              /\ pending' = IF c.exc # NoExc THEN c.exc ELSE pending
    /\ pc' = "sleep"
    /\ UNCHANGED <<tokens, timestamp, prev_message, prevFetchErr, nFetch,
                   nSleep, exitCode, fn>>

\* Lines 132-143: the except clause matching the exception builds its
\* diagnostic and calls check_message; an exception raised there leaves
\* the try statement.
Handler ==
    /\ pc = "handler"
    /\ \E out \in SendOutcomes :
          LET c == check_message(Diagnostic(cyc.exc), prev_message, out)
          IN  /\ cyc' = [cyc EXCEPT !.calls = Append(@, c)]
              /\ notified' = Push(notified, c)
              /\ lastDelivered' = Delivered(lastDelivered, c)
              /\ IF c.exc # NoExc
                 THEN pending' = c.exc /\ prev_message' = prev_message
                 ELSE pending' = pending /\ prev_message' = c.ret
    /\ pc' = "sleep"
    /\ UNCHANGED <<tokens, timestamp, prevFetchErr, nFetch, nSleep, exitCode, fn>>

\* Sleep with a slip: time.sleep in the except path only, not in finally.
SleepOnErrorOnly ==
    /\ pc = "sleep"
    /\ IF cyc.exc # NoExc
       THEN /\ cyc' = [cyc EXCEPT !.sleeps = Append(@, RETRY_PERIOD)]
            /\ nSleep' = nSleep + 1
       ELSE UNCHANGED <<cyc, nSleep>>
    /\ IF pending # NoExc
       THEN pc' = "stopped" /\ exitCode' = 1
       ELSE pc' = "fetch" /\ exitCode' = exitCode
    /\ UNCHANGED <<tokens, timestamp, prev_message, notified, prevFetchErr,
                   pending, nFetch, lastDelivered, fn>>

\* Lines 145-146: the finally clause sleeps; then the loop repeats, or the
\* pending exception leaves main() and the process ends with status 1.
Sleep ==
    /\ pc = "sleep"
    /\ cyc' = [cyc EXCEPT !.sleeps = Append(@, RETRY_PERIOD)]
    /\ nSleep' = nSleep + 1
    /\ IF pending # NoExc
       THEN pc' = "stopped" /\ exitCode' = 1
       ELSE pc' = "fetch" /\ exitCode' = exitCode
    /\ UNCHANGED <<tokens, timestamp, prev_message, notified, prevFetchErr,
                   pending, nFetch, lastDelivered, fn>>

Next == CheckTokens \/ MakeBot \/ Fetch \/ Body \/ Handler \/ Sleep

Spec == Init /\ [][Next]_vars

----------------------------------------------------------------------------
(* check_response and parse_status on their own, over all inputs *)

\* Every dict over the keys homeworks, current_date and one more key, and a
\* value that is not a dict; the homeworks value is a list or another value.
AllResponses ==
    { Dict(keys, hw, cd) :
          keys \in SUBSET {"homeworks", "current_date", "detail"},
          hw \in { JList(q) : q \in HomeworkLists }
                 \cup { JStr("oops"), JInt(7), JNull },
          cd \in CurrentDateValues }
    \cup { NotADict }

\* Every homework record over the keys homework_name and status.
AllRecords ==
    { [k \in keys |-> IF k = "homework_name" THEN name ELSE status] :
          keys \in SUBSET {"homework_name", "status"},
          name \in {"", "proj1", "proj2"},
          status \in {"", "approved", "reviewing", "rejected", "in_review",
                      "Approved"} }

InitFn ==
    /\ pc = "fn"
    /\ tokens = [i \in 1..3 |-> Unset]
    /\ timestamp = JNull
    /\ prev_message = ""
    /\ cyc = IdleCycle
    /\ notified = <<>>
    /\ prevFetchErr = ""
    /\ pending = NoExc
    /\ nFetch = 0
    /\ nSleep = 0
    /\ exitCode = -1
    /\ lastDelivered = ""
    /\ \E r \in AllResponses, h \in AllRecords :
          fn = [NoCall EXCEPT !.op = "input", !.response = r, !.homework = h]

\* check_response(fn.response).
Validate ==
    /\ fn.op = "input"
    /\ LET cr == check_response(fn.response)
       IN  fn' = [fn EXCEPT !.op = "check_response",
                            !.exc = cr.exc, !.list = cr.val]
    /\ UNCHANGED <<pc, tokens, timestamp, prev_message, cyc, notified,
                   prevFetchErr, pending, nFetch, nSleep, exitCode,
                   lastDelivered>>

\* parse_status(fn.homework).
Format ==
    /\ fn.op = "input"
    /\ LET ps == parse_status(fn.homework)
       IN  fn' = [fn EXCEPT !.op = "parse_status",
                            !.exc = ps.exc, !.text = ps.val]
    /\ UNCHANGED <<pc, tokens, timestamp, prev_message, cyc, notified,
                   prevFetchErr, pending, nFetch, nSleep, exitCode,
                   lastDelivered>>

NextFn == Validate \/ Format

SpecFn == InitFn /\ [][NextFn]_vars

----------------------------------------------------------------------------
(* Vocabulary of the properties *)

\* The try statement of the current iteration has been left (its body and,
\* after an exception, its except clause have run).
TryDone == cyc.active /\ pc \in {"sleep", "fetch", "stopped"}

\* Calls of check_message that called bot.send_message.
Sends(calls) == Cardinality({ i \in DOMAIN calls : calls[i].sent })

\* No send of the current iteration failed.
DeliveryWorking == \A i \in DOMAIN cyc.calls : cyc.calls[i].exc = NoExc

FetchFailed == cyc.active /\ cyc.fetch.exc # NoExc
FetchDiag   == Diagnostic(cyc.fetch.exc)

\* The response of the current iteration passed check_response.
ValidResponse ==
    /\ cyc.active /\ cyc.fetch.exc = NoExc
    /\ cyc.fetch.val.isDict
    /\ check_response(cyc.fetch.val).exc = NoExc
Homeworks == cyc.fetch.val.d["homeworks"].l

WellFormedFirst ==
    /\ ValidResponse /\ Homeworks # <<>>
    /\ parse_status(Homeworks[1]).exc = NoExc
FirstText == parse_status(Homeworks[1]).val

----------------------------------------------------------------------------
(* Properties *)

\* C1 (as claimed): once the loop has started, no failure inside an
\* iteration stops the process.
C1_LoopNeverStops == cyc.active => pc # "stopped"

\* C2 (as claimed): in an iteration whose fetch fails, with delivery
\* working, exactly one notification is sent when the previous iteration
\* did not fail with the same error (first cycle of a run) and none when it
\* did (later cycle of the run).
C2_OnePerRun ==
    (TryDone /\ FetchFailed /\ DeliveryWorking) =>
        Sends(cyc.calls) = (IF prevFetchErr = FetchDiag THEN 0 ELSE 1)

\* C2 (amended): in an iteration whose fetch fails, with delivery working,
\* the diagnostic is the only message passed to the notifier; it is sent
\* exactly once when it differs from last_sent at the start of the
\* iteration and not at all when it equals it; in a later cycle of a run of
\* the same error nothing is sent.
C2_OnePerRunUnlessLastSent ==
    (TryDone /\ FetchFailed /\ DeliveryWorking) =>
        /\ Len(cyc.calls) = 1
        /\ cyc.calls[1].msg = FetchDiag
        /\ Sends(cyc.calls) = (IF cyc.startPrev = FetchDiag THEN 0 ELSE 1)
        /\ (prevFetchErr = FetchDiag => Sends(cyc.calls) = 0)
        /\ prev_message = FetchDiag

\* A second consecutive iteration with the same fetch failure sent nothing,
\* the first one having sent the diagnostic.
C2_Witness ==
    /\ TryDone /\ FetchFailed /\ DeliveryWorking
    /\ prevFetchErr = FetchDiag
    /\ Len(notified) = 2
    /\ notified[1].msg = FetchDiag /\ notified[1].sent
    /\ notified[1].exc = NoExc
    /\ ~notified[2].sent

\* Two calls of the notifier in a row, the same message, the result of the
\* first passed to the second as last_sent.
TwoInARow ==
    /\ Len(notified) = 2
    /\ notified[1].msg = notified[2].msg
    /\ notified[1].exc = NoExc
    /\ notified[2].prev = notified[1].ret

\* C3 (as claimed): two notifier calls in a row with the same message, the
\* result of the first threaded into the second, cause exactly one send.
C3_TwoCallsOneSend == TwoInARow => Sends(notified) = 1

\* C3 (amended): a notifier call with message = last_sent sends nothing and
\* returns last_sent; two calls in a row with the same message, threaded,
\* cause exactly one send when the message differs from last_sent before
\* the first call and none when it equals it.
C3_DedupIdempotent ==
    /\ \A i \in DOMAIN notified :
          notified[i].msg = notified[i].prev =>
              /\ ~notified[i].sent
              /\ notified[i].exc = NoExc
              /\ notified[i].ret = notified[i].prev
    /\ TwoInARow =>
          /\ Sends(notified) =
                 (IF notified[1].msg = notified[1].prev THEN 0 ELSE 1)
          /\ ~notified[2].sent

\* The first of two such calls sent the message, the second did not.
C3_Witness ==
    /\ TwoInARow
    /\ notified[1].sent
    /\ ~notified[2].sent
    /\ notified[2].ret = notified[1].msg

\* C4: with a credential empty or absent the check is false and the process
\* never gets past the check: no fetch, no notifier call, no sleep; the
\* process gets past the check only with three non-empty credentials.
MissingCredential == \E i \in 1..3 : ~tokens[i].present \/ tokens[i].v = ""
C4_MissingCredentialNeverLoops ==
    /\ MissingCredential =>
          /\ pc \in {"start", "stopped"}
          /\ nFetch = 0 /\ nSleep = 0
          /\ notified = <<>> /\ ~cyc.active
          /\ (pc = "stopped" => pending = NoExc)
    /\ pc \in {"mkbot", "fetch", "body", "handler", "sleep"} =>
          \A i \in 1..3 : tokens[i].present /\ tokens[i].v # ""

\* The process has stopped on a credential set to the empty string, the
\* other two being set.
C4_Witness ==
    /\ pc = "stopped"
    /\ tokens[1] = Env("secret") /\ tokens[2] = Env("") /\ tokens[3] = Env("secret")
    /\ nFetch = 0

\* C5 (as claimed): the process stops only at start-up (credential missing
\* or client not built), and then with a non-zero exit status.
C5_StopsOnlyAtStartupNonZero ==
    pc = "stopped" => (exitCode # 0 /\ ~cyc.active)

\* C6: every iteration ends with exactly one sleep of RETRY_PERIOD, failed
\* or not, and a sleep separates any two fetches.
C6_OneSleepPerIteration ==
    /\ nFetch - nSleep \in {0, 1}
    /\ pc \in {"body", "handler", "sleep"} =>
          nFetch = nSleep + 1 /\ cyc.sleeps = <<>>
    /\ pc = "fetch" => nSleep = nFetch
    /\ (cyc.active /\ pc \in {"fetch", "stopped"}) =>
          nSleep = nFetch /\ cyc.sleeps = <<RETRY_PERIOD>>

\* Two iterations have ended, the second one successful, each with its sleep.
C6_Witness ==
    /\ pc = "fetch" /\ nFetch = 2 /\ nSleep = 2
    /\ cyc.exc = NoExc /\ prevFetchErr # ""

C8_EmptyListOnlyMovesCursor ==
    (TryDone /\ ValidResponse /\ Homeworks = <<>>) =>
        /\ cyc.calls = <<>>
        /\ cyc.exc = NoExc
        /\ prev_message = cyc.startPrev
        /\ timestamp = cyc.fetch.val.d["current_date"]

\* Such an iteration, with a message sent earlier and a cursor that moved.
C8_Witness ==
    /\ TryDone /\ ValidResponse /\ Homeworks = <<>>
    /\ cyc.startPrev # ""
    /\ timestamp # cyc.startTs

\* C9: after an iteration whose fetch succeeded the cursor is the
\* response's current_date if it has the key, else its previous value;
\* after a failed fetch it is unchanged; the request's from_date is the
\* cursor.
C9_CursorFollowsCurrentDate ==
    /\ cyc.active => cyc.from_date = cyc.startTs
    /\ (cyc.active /\ pc = "body") => timestamp = cyc.startTs
    /\ (TryDone /\ FetchFailed) => timestamp = cyc.startTs
    /\ (TryDone /\ ~FetchFailed) =>
          timestamp = IF /\ cyc.fetch.val.isDict
                         /\ "current_date" \in DOMAIN cyc.fetch.val.d
                      THEN cyc.fetch.val.d["current_date"]
                      ELSE cyc.startTs

\* A later iteration asked with the date an earlier response reported, and
\* its own response moved the cursor again.
C9_Witness ==
    /\ TryDone /\ ~FetchFailed
    /\ cyc.from_date = JInt(2000)
    /\ timestamp = JInt(3000)

\* C10 (as claimed): after an iteration whose fetch, validation or
\* formatting failed, exactly one diagnostic was passed to the notifier, no
\* homework message was sent, and the loop continues.
C10_FailureReportedLoopContinues ==
    (TryDone /\ cyc.stage \in {"fetch", "validate", "format"}) =>
        /\ Len(cyc.calls) = 1
        /\ cyc.calls[1].msg = Diagnostic(cyc.exc)
        /\ cyc.hwMsg = ""
        /\ pending = NoExc
        /\ pc # "stopped"

\* C11: check_response fails for a response that is not a dict, for a dict
\* without the key homeworks whatever its other keys, for a dict without the
\* key current_date, and for a dict whose homeworks value is not a list; for
\* every other response it returns the homeworks list as it is.
C11_ValidatorContract ==
    fn.op = "check_response" =>
        LET r == fn.response
            bad == \/ ~r.isDict
                   \/ "homeworks" \notin DOMAIN r.d
                   \/ "current_date" \notin DOMAIN r.d
                   \/ r.d["homeworks"].t # "list"
        IN  IF bad THEN fn.exc # NoExc
            ELSE fn.exc = NoExc /\ fn.list = r.d["homeworks"].l

\* A dict with other keys and no homeworks key was rejected.
C11_Witness ==
    /\ fn.op = "check_response"
    /\ fn.response.isDict
    /\ DOMAIN fn.response.d = {"current_date", "detail"}
    /\ fn.exc # NoExc

\* C12: parse_status fails for a record whose homework_name is missing or
\* empty, whose status is missing or empty, or whose status is none of
\* approved, reviewing, rejected; otherwise it returns the template with the
\* record's name and the verdict sentence of its status.
C12_FormatterContract ==
    fn.op = "parse_status" =>
        LET h == fn.homework
            bad == \/ "homework_name" \notin DOMAIN h
                   \/ h["homework_name"] = ""
                   \/ "status" \notin DOMAIN h
                   \/ h["status"] = ""
                   \/ h["status"] \notin {"approved", "reviewing", "rejected"}
        IN  IF bad THEN fn.exc # NoExc
            ELSE /\ fn.exc = NoExc
                 /\ fn.text = "Review status changed for \""
                                \o h["homework_name"] \o "\". "
                                \o HOMEWORK_VERDICTS[h["status"]]

\* The record proj2/rejected was formatted.
C12_Witness ==
    /\ fn.op = "parse_status"
    /\ fn.homework = Rec("proj2", "rejected")
    /\ fn.text = "Review status changed for \"proj2\". Work checked: the reviewer has remarks."

\* C13: every iteration issues exactly one request, failed or not: the
\* number of requests is the number of iterations begun.
C13_OneRequestPerIteration ==
    /\ cyc.active => cyc.fetch.calls = 1
    /\ nFetch = nSleep + (IF pc \in {"body", "handler", "sleep"} THEN 1 ELSE 0)

\* The second iteration has made its request, after a first one whose
\* request failed.
C13_Witness ==
    /\ pc \in {"body", "handler"}
    /\ prevFetchErr # ""
    /\ nFetch = 2 /\ nSleep = 1

\* C14 (as claimed): an iteration whose response fails validation ends with
\* the cursor it started with.
C14_InvalidResponseKeepsCursor ==
    (TryDone /\ cyc.stage = "validate") => timestamp = cyc.startTs

\* Two calls of the notifier in a row: the first one sent and delivered a
\* message other than last_sent, the second one's message is the last_sent
\* the first one replaced.
Alternation ==
    /\ Len(notified) = 2
    /\ notified[1].sent /\ notified[1].exc = NoExc
    /\ notified[1].prev = notified[2].msg

\* C15: one last-sent value serves homework messages and diagnostics: once
\* M, then another message E have been delivered, M is compared with E and
\* sent again (M and E being a homework message and a diagnostic, either
\* way round).
C15_SharedLastSent ==
    Alternation =>
        /\ notified[2].prev = notified[1].msg
        /\ notified[2].sent

\* Homework message, then a fetch diagnostic, then the same homework message,
\* sent for the second time.
C15_Witness ==
    /\ Alternation
    /\ prevFetchErr # "" /\ notified[1].msg = prevFetchErr
    /\ cyc.hwMsg # "" /\ notified[2].msg = cyc.hwMsg
    /\ notified[2].sent /\ notified[2].exc = NoExc

\* C16: last_sent is the text of the most recent message delivered, or ""
\* when none has been.
C16_LastSentIsLastDelivered == prev_message = lastDelivered

\* A send has failed after an earlier message was delivered: last_sent is
\* still the earlier message.
C16_Witness ==
    /\ cyc.active /\ Len(cyc.calls) >= 1
    /\ cyc.calls[1].sent /\ cyc.calls[1].exc # NoExc
    /\ lastDelivered # "" /\ lastDelivered # cyc.calls[1].msg
    /\ prev_message = lastDelivered

\* C17 (as claimed): in an iteration whose homework message was formatted
\* and whose delivery failed, the cursor is not advanced.
C17_FailedDeliveryKeepsCursor ==
    (cyc.active /\ cyc.stage = "notify") => timestamp = cyc.startTs

\* C18 (as claimed): the cursor is an integer in every state of the loop.
C18_CursorIsInteger ==
    pc \in {"fetch", "body", "handler", "sleep"} => timestamp.t = "int"

====
